---- MODULE Spec2Model ----
(***************************************************************************)
(* Model of the recipe API: the User manager and the Recipe / Tag /        *)
(* Ingredient tables of core/models.py, and the viewsets of                *)
(* recipe/views.py (owner-scoped querysets, filtering, image upload).      *)
(***************************************************************************)
EXTENDS Integers, Sequences, FiniteSets, TLC

(* ---------------------------- bounds ---------------------------------- *)
MaxInserts == 4        \* rows ever inserted, over all tables

(* ------------------------- input domains ------------------------------ *)
\* A str is kept as the list its split on the separator yields; None is <<>>.
None == <<>>
EmptyStr == <<"">>

\* e-mail addresses: "" , None, and name@domain as <<name, domain>>
ManagerEmails == {None, EmptyStr, <<"a", "EX.com">>, <<"a", "ex.com">>, <<"B", "ex.com">>}
Passwords == {None, <<"pw">>}
FlagNames == {"is_staff", "is_superuser"}
ExtraFields == UNION {[ks -> BOOLEAN] : ks \in SUBSET FlagNames}
NoExtra == CHOOSE f \in ExtraFields : DOMAIN f = {}

Kinds == {"tag", "ingredient"}
Titles == {"Soup"}
NewTitles == {"Stew"}
AttrNames == {"x", "y"}
IdParams == {None, EmptyStr, <<"1">>, <<"1", "2">>, <<"a">>, <<"1", "">>}
ListParams == {<<t, None>> : t \in IdParams}
                \cup {<<None, <<"1">>>>, <<<<"1">>, <<"1">>>>, <<None, <<"a">>>>}
AssignedParams == {None, <<"0">>, <<"1">>, <<"a">>}
\* what a request or call came with, for the fields its operation reads
NoArgs == [tags |-> None, ingredients |-> None, assigned_only |-> None,
           user |-> 0, valid |-> TRUE, email |-> None, extra_fields |-> NoExtra]

VARIABLES users, recipes, attrs, links, seqs, response

vars == <<users, recipes, attrs, links, seqs, response>>

(* --------------------------- helpers ---------------------------------- *)
Ids(rows) == {r.id : r \in rows}

Row(rows, pk) == CHOOSE r \in rows : r.id = pk

\* rows inserted so far (the sequences start at 1)
Inserted == seqs.user + seqs.recipe + seqs.tag + seqs.ingredient - 4

\* str.lower() on the domains used
Lower(s) == IF s = "EX.com" THEN "ex.com" ELSE s

\* int(str): the value, or ValueError (-1 here) when str is not an integer literal
IsInt(tok) == tok \in {"0", "1", "2", "3"}

ToInt(tok) == IF tok = "0" THEN 0 ELSE IF tok = "1" THEN 1 ELSE IF tok = "2" THEN 2 ELSE IF tok = "3" THEN 3 ELSE -1

\* ordering of names used by ORDER BY name
NameRank(n) == IF n = "x" THEN 1 ELSE 2

\* Python truthiness of an optional str query parameter / argument
Truthy(s) == s # None /\ s # EmptyStr

Resp(op, caller, pk, status, data, errors, raised, args, count) ==
    [op |-> op, caller |-> caller, pk |-> pk, status |-> status, data |-> data,
     errors |-> errors, raised |-> raised, args |-> args, count |-> count]

\* no request is being handled
Idle == Resp("idle", 0, 0, 0, <<>>, {}, "", NoArgs, 0)

Init ==
    /\ users = {}
    /\ recipes = {}
    /\ attrs = [k \in Kinds |-> {}]
    /\ links = [k \in Kinds |-> {}]
    /\ seqs = [user |-> 1, recipe |-> 1, tag |-> 1, ingredient |-> 1]
    /\ response = Idle

(* ----------------------- core/models.py: users ------------------------ *)
\* BaseUserManager.normalize_email: lowercase the domain part
normalize_email(email) ==
    IF Len(email) = 2 THEN <<email[1], Lower(email[2])>> ELSE email

\* AbstractBaseUser.set_password
set_password(password) ==
    IF password = None THEN <<"!">> ELSE <<"pbkdf2_sha256", password[1]>>

Flag(extra_fields, name) ==
    IF name \in DOMAIN extra_fields THEN extra_fields[name] ELSE FALSE

\* the check of the e-mail left out
CreateUserOutcomeUnchecked(email, password, extra_fields) ==
    [raised |-> "",
     rows |-> {[id |-> seqs.user, email |-> normalize_email(email),
                is_staff |-> Flag(extra_fields, "is_staff"),
                is_superuser |-> Flag(extra_fields, "is_superuser"),
                password |-> set_password(password)]}]

\* UserManager.create_user: outcome [raised, rows saved]
CreateUserOutcome(email, password, extra_fields) ==
    IF ~Truthy(email)
    THEN [raised |-> "ValueError", rows |-> {}]
    ELSE LET e == normalize_email(email)
             user == [id |-> seqs.user, email |-> e,
                      is_staff |-> Flag(extra_fields, "is_staff"),
                      is_superuser |-> Flag(extra_fields, "is_superuser"),
                      password |-> set_password(password)]
         IN  IF \E u \in users : u.email = e
             THEN [raised |-> "IntegrityError", rows |-> {}]
             ELSE [raised |-> "", rows |-> {user}]

SaveUser(op, out, args) ==
    /\ users' = users \cup out.rows
    /\ seqs' = IF out.rows = {} THEN seqs ELSE [seqs EXCEPT !.user = @ + 1]
    /\ response' = Resp(op, 0, IF out.rows = {} THEN 0 ELSE seqs.user, 0, <<>>, {},
                        out.raised, args, 0)
    /\ UNCHANGED <<recipes, attrs, links>>

create_user(email, password, extra_fields) ==
    /\ response = Idle
    /\ Inserted < MaxInserts
    /\ SaveUser("create_user", CreateUserOutcome(email, password, extra_fields),
                [NoArgs EXCEPT !.email = email, !.extra_fields = extra_fields])

\* dict.setdefault
SetDefault(d, k, v) ==
    IF k \in DOMAIN d THEN d ELSE [x \in DOMAIN d \cup {k} |-> IF x = k THEN v ELSE d[x]]

\* the two flag checks left out
SuperuserOutcomeUnchecked(email, password, extra_fields) ==
    CreateUserOutcome(email, password,
        SetDefault(SetDefault(extra_fields, "is_staff", TRUE), "is_superuser", TRUE))

\* UserManager.create_superuser: outcome [raised, rows saved]
SuperuserOutcome(email, password, extra_fields) ==
    LET ef == SetDefault(SetDefault(extra_fields, "is_staff", TRUE), "is_superuser", TRUE)
    IN  IF ef["is_staff"] # TRUE THEN [raised |-> "ValueError", rows |-> {}]
        ELSE IF ef["is_superuser"] # TRUE THEN [raised |-> "ValueError", rows |-> {}]
        ELSE CreateUserOutcome(email, password, ef)

create_superuser(email, password, extra_fields) ==
    /\ response = Idle
    /\ Inserted < MaxInserts
    /\ SaveUser("create_superuser", SuperuserOutcome(email, password, extra_fields),
                [NoArgs EXCEPT !.email = email, !.extra_fields = extra_fields])

\* on_delete=DO_NOTHING in place of CASCADE
CascadeRecipesNothing(uid) == {}

\* on_delete=CASCADE of Recipe.user
CascadeRecipes(uid) == {r \in recipes : r.user = uid}

\* on_delete=CASCADE of Tag.user, Ingredient.user
CascadeAttrs(kind, uid) == {a \in attrs[kind] : a.user = uid}

\* rows of a many-to-many table that go with deleted recipes / attributes
LinksLeft(kind, goneRecipes, goneAttrs) ==
    {l \in links[kind] : l[1] \notin Ids(goneRecipes) /\ l[2] \notin Ids(goneAttrs)}

delete_user(uid) ==
    /\ response = Idle
    /\ uid \in Ids(users)
    /\ users' = {u \in users : u.id # uid}
    /\ recipes' = recipes \ CascadeRecipes(uid)
    /\ attrs' = [k \in Kinds |-> attrs[k] \ CascadeAttrs(k, uid)]
    /\ links' = [k \in Kinds |-> LinksLeft(k, CascadeRecipes(uid), CascadeAttrs(k, uid))]
    /\ response' = Resp("delete_user", 0, uid, 0, <<>>, {}, "", NoArgs,
                        1 + Cardinality(CascadeRecipes(uid))
                          + Cardinality(CascadeAttrs("tag", uid))
                          + Cardinality(CascadeAttrs("ingredient", uid)))
    /\ UNCHANGED seqs

\* the call returns / the response is sent: the next request may be handled
respond ==
    /\ response # Idle
    /\ response' = Idle
    /\ UNCHANGED <<users, recipes, attrs, links, seqs>>

NextUsers ==
    \/ \E e \in ManagerEmails, p \in Passwords, x \in ExtraFields : create_user(e, p, x)
    \/ \E e \in ManagerEmails, p \in Passwords, x \in ExtraFields : create_superuser(e, p, x)
    \/ \E uid \in Ids(users) : delete_user(uid)
    \/ respond

SpecUsers == Init /\ [][NextUsers]_vars

(* ------------------- recipe/views.py: shared parts -------------------- *)
\* the exception handling of the view dispatch: status of a request whose
\* handler raised
handle_exception(raised) ==
    IF raised = "Http404" THEN 404
    ELSE IF raised = "ValidationError" THEN 400
    ELSE 500

\* the owner filter left out
FilterUserMissing(rows, table, caller) == rows

\* queryset.filter(user=self.request.user), on join rows <<id, ...>> of table
FilterUser(rows, table, caller) ==
    {row \in rows : \E r \in table : r.id = row[1] /\ r.user = caller}

\* RecipeViewset._params_to_ints: [raised, ids]
params_to_ints(qs) ==
    IF \E i \in 1..Len(qs) : ~IsInt(qs[i])
    THEN [raised |-> "ValueError", ids |-> {}]
    ELSE [raised |-> "", ids |-> {ToInt(qs[i]) : i \in 1..Len(qs)}]

\* .distinct() left out: one row per join row
DistinctMissing(rows) == rows

\* SELECT DISTINCT over the columns of the selected table: join rows
\* <<id, joined ids...>> collapse to one row per id
Distinct(rows) == {<<row[1]>> : row \in rows}

\* ORDER BY key DESC over pairs <<row, key>>: the arrangements of the rows
\* with key non-increasing
OrderDesc(keyed) ==
    LET n == Cardinality(keyed)
    IN  {s \in [1..n -> keyed] :
            /\ \A i, j \in 1..n : i # j => s[i] # s[j]
            /\ \A i \in 1..n : \A j \in i..n : s[i][2] >= s[j][2]}

\* the ids of the ordered rows
Column(s) == [i \in 1..Len(s) |-> s[i][1][1]]

(* ---------------- recipe/views.py: RecipeViewset ---------------------- *)
\* join rows of the recipe table: <<recipe id, joined tag id, joined ingredient id>>
RecipeRows == {<<r.id, 0, 0>> : r \in recipes}

\* inner join of rows with a many-to-many table, restricted to the ids
JoinPairs(rows, kind, ids) ==
    {p \in rows \X links[kind] : p[2][1] = p[1][1] /\ p[2][2] \in ids}

\* .filter(tags__id__in=tag_ids)
FilterTags(rows, ids) == {<<p[1][1], p[2][2], p[1][3]>> : p \in JoinPairs(rows, "tag", ids)}

\* .filter(ingredients__id__in=ingredient_ids)
FilterIngredients(rows, ids) ==
    {<<p[1][1], p[1][2], p[2][2]>> : p \in JoinPairs(rows, "ingredient", ids)}

RowId(row) == row[1]

\* RecipeViewset.get_queryset: [raised, rows, lists]; lists are the orders the
\* database may return the rows in
RecipeQueryset(caller, tags, ingredients) ==
    LET t == IF Truthy(tags) THEN params_to_ints(tags) ELSE [raised |-> "", ids |-> {}]
        i == IF Truthy(ingredients) THEN params_to_ints(ingredients)
             ELSE [raised |-> "", ids |-> {}]
        q1 == IF Truthy(tags) THEN FilterTags(RecipeRows, t.ids) ELSE RecipeRows
        q2 == IF Truthy(ingredients) THEN FilterIngredients(q1, i.ids) ELSE q1
        q3 == Distinct(FilterUser(q2, recipes, caller))
    IN  IF t.raised # "" THEN [raised |-> t.raised, lists |-> {<<>>}]
        ELSE IF i.raised # "" THEN [raised |-> i.raised, lists |-> {<<>>}]
        ELSE [raised |-> "", lists |-> {Column(s) : s \in OrderDesc({<<row, RowId(row)>> : row \in q3})}]

\* the lookup done on Recipe.objects.all() instead of get_queryset()
RecipeObjectUnscoped(caller, pk) == IF pk \in Ids(recipes) THEN "" ELSE "Http404"

\* GenericAPIView.get_object over get_queryset(): the row, or Http404
RecipeObject(caller, pk) ==
    LET q == RecipeQueryset(caller, None, None)
    IN  IF q.raised # "" THEN q.raised
        ELSE IF \E s \in q.lists : \E k \in 1..Len(s) : s[k] = pk THEN "" ELSE "Http404"

Fail(op, caller, pk, raised, args) ==
    /\ response' = Resp(op, caller, pk, handle_exception(raised), <<>>,
                        IF raised = "Http404" THEN {"detail"} ELSE {}, raised, args, 0)
    /\ UNCHANGED <<users, recipes, attrs, links, seqs>>

\* ListModelMixin.list on RecipeViewset
recipe_list(caller, tags, ingredients) ==
    LET q == RecipeQueryset(caller, tags, ingredients)
        args == [NoArgs EXCEPT !.tags = tags, !.ingredients = ingredients]
    IN  /\ response = Idle
        /\ caller \in Ids(users)
        /\ IF q.raised # ""
           THEN Fail("recipe_list", caller, 0, q.raised, args)
           ELSE /\ \E s \in q.lists :
                      response' = Resp("recipe_list", caller, 0, 200, s, {}, "", args, 0)
                /\ UNCHANGED <<users, recipes, attrs, links, seqs>>

\* the owner taken from the payload when it carries one
perform_create_payload_user(caller, payload) ==
    [id |-> seqs.recipe, user |-> IF payload.user # 0 THEN payload.user ELSE caller,
     title |-> payload.title, image |-> None]

\* RecipeViewset.perform_create: serializer.save(user=self.request.user); the
\* keyword arguments of save() override the validated payload
perform_create(caller, payload) ==
    [id |-> seqs.recipe, user |-> caller, title |-> payload.title, image |-> None]

\* CreateModelMixin.create on RecipeViewset
recipe_create(caller, payload) ==
    LET args == [NoArgs EXCEPT !.user = payload.user, !.valid = payload.valid]
    IN  /\ response = Idle
        /\ caller \in Ids(users)
        /\ Inserted < MaxInserts
        /\ IF ~payload.valid
           THEN /\ response' = Resp("recipe_create", caller, 0, 400, <<>>, {"title"},
                                    "ValidationError", args, 0)
                /\ UNCHANGED <<users, recipes, attrs, links, seqs>>
           ELSE /\ recipes' = recipes \cup {perform_create(caller, payload)}
                /\ seqs' = [seqs EXCEPT !.recipe = @ + 1]
                /\ response' = Resp("recipe_create", caller, seqs.recipe, 201,
                                    <<seqs.recipe>>, {}, "", args, 0)
                /\ UNCHANGED <<users, attrs, links>>

\* RetrieveModelMixin.retrieve on RecipeViewset
recipe_retrieve(caller, pk) ==
    /\ response = Idle
    /\ caller \in Ids(users)
    /\ IF RecipeObject(caller, pk) # ""
       THEN Fail("recipe_retrieve", caller, pk, RecipeObject(caller, pk), NoArgs)
       ELSE /\ response' = Resp("recipe_retrieve", caller, pk, 200, <<pk>>, {}, "", NoArgs, 0)
            /\ UNCHANGED <<users, recipes, attrs, links, seqs>>

\* UpdateModelMixin.update on RecipeViewset
recipe_update(caller, pk, title) ==
    /\ response = Idle
    /\ caller \in Ids(users)
    /\ IF RecipeObject(caller, pk) # ""
       THEN Fail("recipe_update", caller, pk, RecipeObject(caller, pk), NoArgs)
       ELSE /\ recipes' = {IF r.id = pk THEN [r EXCEPT !.title = title] ELSE r : r \in recipes}
            /\ response' = Resp("recipe_update", caller, pk, 200, <<pk>>, {}, "", NoArgs, 0)
            /\ UNCHANGED <<users, attrs, links, seqs>>

\* DestroyModelMixin.destroy on RecipeViewset
recipe_destroy(caller, pk) ==
    /\ response = Idle
    /\ caller \in Ids(users)
    /\ IF RecipeObject(caller, pk) # ""
       THEN Fail("recipe_destroy", caller, pk, RecipeObject(caller, pk), NoArgs)
       ELSE /\ recipes' = {r \in recipes : r.id # pk}
            /\ links' = [k \in Kinds |-> {l \in links[k] : l[1] # pk}]
            /\ response' = Resp("recipe_destroy", caller, pk, 204, <<>>, {}, "", NoArgs, 0)
            /\ UNCHANGED <<users, attrs, seqs>>

\* recipe_image_file_path: uploads/recipe/<uuid4><ext of the uploaded name>
recipe_image_file_path(uuid, filepath) == <<"uploads", "recipe", uuid, filepath[2]>>

\* the image written to every recipe
SaveImageAll(rows, pk, path) == {[r EXCEPT !.image = path] : r \in rows}

\* serializer.save() of the image serializer bound to the recipe get_object() gave
SaveImage(rows, pk, path) ==
    {IF r.id = pk THEN [r EXCEPT !.image = path] ELSE r : r \in rows}

\* RecipeViewset.upload_image
upload_image(caller, pk, valid, uuid, filepath) ==
    /\ response = Idle
    /\ caller \in Ids(users)
    /\ IF RecipeObject(caller, pk) # ""
       THEN Fail("upload_image", caller, pk, RecipeObject(caller, pk), NoArgs)
       ELSE IF valid
       THEN /\ recipes' = SaveImage(recipes, pk, recipe_image_file_path(uuid, filepath))
            /\ response' = Resp("upload_image", caller, pk, 200, <<pk>>, {}, "", NoArgs, 0)
            /\ UNCHANGED <<users, attrs, links, seqs>>
       ELSE /\ response' = Resp("upload_image", caller, pk, 400, <<>>, {"image"}, "",
                                [NoArgs EXCEPT !.valid = FALSE], 0)
            /\ UNCHANGED <<users, recipes, attrs, links, seqs>>

(* -------------- recipe/views.py: BaseRecipeAttrViewSet ---------------- *)
\* join rows of an attribute table: <<attribute id, joined recipe id>>
AttrRows(kind) == {<<a.id, 0>> : a \in attrs[kind]}

\* .filter(recipe__isnull=False): inner join with the many-to-many table
FilterAssigned(rows, kind) ==
    {<<p[1][1], p[2][1]>> : p \in {q \in rows \X links[kind] : q[2][2] = q[1][1]}}

\* bool(int(self.request.query_params.get("assigned_only", 0)))
assigned_only(param) == IF param = None THEN FALSE ELSE ToInt(param[1]) # 0

AttrName(kind, row) == NameRank(Row(attrs[kind], row[1]).name)

\* BaseRecipeAttrViewSet.get_queryset: the orders the database may return
AttrQueryset(kind, caller, param) ==
    LET q1 == IF assigned_only(param) THEN FilterAssigned(AttrRows(kind), kind)
              ELSE AttrRows(kind)
        q2 == Distinct(FilterUser(q1, attrs[kind], caller))
    IN  {Column(s) : s \in OrderDesc({<<row, AttrName(kind, row)>> : row \in q2})}

\* GenericAPIView.get_object over get_queryset()
AttrObject(kind, caller, pk) ==
    IF \E s \in AttrQueryset(kind, caller, None) : \E k \in 1..Len(s) : s[k] = pk
    THEN "" ELSE "Http404"

\* ListModelMixin.list on TagViewSet / IngredientViewSet
attr_list(kind, caller, param) ==
    /\ response = Idle
    /\ caller \in Ids(users)
    /\ IF param # None /\ ~IsInt(param[1])
       THEN Fail(kind \o "_list", caller, 0, "ValueError",
                 [NoArgs EXCEPT !.assigned_only = param])
       ELSE /\ \E s \in AttrQueryset(kind, caller, param) :
                  response' = Resp(kind \o "_list", caller, 0, 200, s, {}, "",
                                   [NoArgs EXCEPT !.assigned_only = param], 0)
            /\ UNCHANGED <<users, recipes, attrs, links, seqs>>

\* UpdateModelMixin.update on TagViewSet / IngredientViewSet
attr_update(kind, caller, pk, name) ==
    /\ response = Idle
    /\ caller \in Ids(users)
    /\ IF AttrObject(kind, caller, pk) # ""
       THEN Fail(kind \o "_update", caller, pk, AttrObject(kind, caller, pk), NoArgs)
       ELSE /\ attrs' = [attrs EXCEPT ![kind] =
                           {IF a.id = pk THEN [a EXCEPT !.name = name] ELSE a : a \in @}]
            /\ response' = Resp(kind \o "_update", caller, pk, 200, <<pk>>, {}, "", NoArgs, 0)
            /\ UNCHANGED <<users, recipes, links, seqs>>

\* DestroyModelMixin.destroy on TagViewSet / IngredientViewSet
attr_destroy(kind, caller, pk) ==
    /\ response = Idle
    /\ caller \in Ids(users)
    /\ IF AttrObject(kind, caller, pk) # ""
       THEN Fail(kind \o "_destroy", caller, pk, AttrObject(kind, caller, pk), NoArgs)
       ELSE /\ attrs' = [attrs EXCEPT ![kind] = {a \in @ : a.id # pk}]
            /\ links' = [links EXCEPT ![kind] = {l \in @ : l[2] # pk}]
            /\ response' = Resp(kind \o "_destroy", caller, pk, 204, <<>>, {}, "", NoArgs, 0)
            /\ UNCHANGED <<users, recipes, seqs>>

(* ------------- core/models.py: Tag, Ingredient, relations ------------- *)
\* Tag(name, user) / Ingredient(name, user) saved: the user is any stored user
attr_save(kind, uid, name) ==
    /\ response = Idle
    /\ uid \in Ids(users)
    /\ Inserted < MaxInserts
    /\ attrs' = [attrs EXCEPT ![kind] = @ \cup {[id |-> seqs[kind], user |-> uid, name |-> name]}]
    /\ seqs' = [seqs EXCEPT ![kind] = @ + 1]
    /\ response' = Resp(kind \o "_save", 0, seqs[kind], 0, <<>>, {}, "", NoArgs, 0)
    /\ UNCHANGED <<users, recipes, links>>

\* Recipe.tags / Recipe.ingredients: ManyToManyField with no owner constraint
relation_add(kind, rid, aid) ==
    /\ response = Idle
    /\ rid \in Ids(recipes)
    /\ aid \in Ids(attrs[kind])
    /\ <<rid, aid>> \notin links[kind]
    /\ links' = [links EXCEPT ![kind] = @ \cup {<<rid, aid>>}]
    /\ response' = Resp(kind \o "_add", 0, rid, 0, <<>>, {}, "", NoArgs, 0)
    /\ UNCHANGED <<users, recipes, attrs, seqs>>

(* --------------------------- specification ---------------------------- *)
\* the n-th registration comes with the n-th address
MainEmails == {<<ToString(seqs.user), "EX.com">>}

Payloads == [title : Titles, user : {0} \cup Ids(users), valid : BOOLEAN]

Next ==
    \/ \E e \in MainEmails : create_user(e, <<"pw">>, NoExtra)
    \/ \E uid \in Ids(users) : delete_user(uid)
    \/ \E c \in Ids(users), p \in ListParams : recipe_list(c, p[1], p[2])
    \/ \E c \in Ids(users), p \in Payloads : recipe_create(c, p)
    \/ \E c \in Ids(users), pk \in 1..seqs.recipe : recipe_retrieve(c, pk)
    \/ \E c \in Ids(users), pk \in 1..seqs.recipe, t \in NewTitles : recipe_update(c, pk, t)
    \/ \E c \in Ids(users), pk \in 1..seqs.recipe : recipe_destroy(c, pk)
    \/ \E c \in Ids(users), pk \in 1..seqs.recipe, v \in BOOLEAN :
          upload_image(c, pk, v, "uuid", <<"photo", ".png">>)
    \/ \E k \in Kinds, c \in Ids(users), a \in AssignedParams : attr_list(k, c, a)
    \/ \E k \in Kinds : \E c \in Ids(users), pk \in 1..seqs[k], n \in AttrNames :
          attr_update(k, c, pk, n)
    \/ \E k \in Kinds : \E c \in Ids(users), pk \in 1..seqs[k] : attr_destroy(k, c, pk)
    \/ \E k \in Kinds, u \in Ids(users), n \in AttrNames : attr_save(k, u, n)
    \/ \E k \in Kinds : \E r \in Ids(recipes), a \in Ids(attrs[k]) : relation_add(k, r, a)
    \/ respond

Spec == Init /\ [][Next]_vars

(* ------------------------------ claims -------------------------------- *)
ListOps == {"recipe_list", "tag_list", "ingredient_list"}

\* the table a list or detail operation reads
TableOf(op) ==
    IF op \in {"recipe_list", "recipe_retrieve", "recipe_update", "recipe_destroy",
               "upload_image"} THEN recipes
    ELSE IF op \in {"tag_list", "tag_update", "tag_destroy"} THEN attrs["tag"]
    ELSE attrs["ingredient"]

Listed(r) == {r.data[k] : k \in 1..Len(r.data)}

\* C1: a recipe, tag or ingredient list returned to a caller holds only ids of
\* stored records owned by that caller, never a record of another user,
\* whatever the tags, ingredients and assigned_only parameters are.
C1_ListsOnlyOwnRecords ==
    (response.op \in ListOps /\ response.status = 200) =>
        \A id \in Listed(response) :
            /\ \E r \in TableOf(response.op) : r.id = id /\ r.user = response.caller
            /\ ~\E r \in TableOf(response.op) : r.id = id /\ r.user # response.caller

\* two users own a recipe each and one of them lists with a tags filter or without
C1_Witness ==
    /\ response.op = "recipe_list"
    /\ Len(response.data) = 1
    /\ \E r \in recipes : r.user # response.caller

DetailOps == {"recipe_retrieve", "recipe_update", "recipe_destroy", "upload_image",
              "tag_update", "tag_destroy", "ingredient_update", "ingredient_destroy"}

Outcome(r) == [status |-> r.status, data |-> r.data, errors |-> r.errors, raised |-> r.raised]

NotFound == [status |-> 404, data |-> <<>>, errors |-> {"detail"}, raised |-> "Http404"]

\* C2: a detail request (retrieve, update, delete, upload-image on a recipe;
\* update, delete on a tag or ingredient) for an id the caller does not own,
\* whether owned by another user or not stored at all, gets the one not-found
\* outcome and changes no stored record.
C2_ForeignIsNotFound ==
    [][(response = Idle /\ response'.op \in DetailOps
        /\ ~\E r \in TableOf(response'.op) : r.id = response'.pk /\ r.user = response'.caller)
       => (Outcome(response') = NotFound /\ UNCHANGED <<users, recipes, attrs, links, seqs>>)]_vars

\* a not-found answer for a record that exists and belongs to another user
C2_Witness ==
    /\ response.op \in DetailOps
    /\ response.status = 404
    /\ \E r \in TableOf(response.op) : r.id = response.pk /\ r.user # response.caller

\* C3: the recipe a successful create request persisted is owned by the caller
\* of the request, whatever owner the payload carried.
C3_CreateOwnedByCaller ==
    (response.op = "recipe_create" /\ response.status = 201) =>
        /\ \E r \in recipes : r.id = response.pk
        /\ \A r \in recipes : r.id = response.pk => r.user = response.caller

\* a create whose payload named another stored user as owner
C3_Witness ==
    /\ response.op = "recipe_create"
    /\ response.status = 201
    /\ response.args.user \in Ids(users) \ {response.caller}

\* the ids a query parameter lists, read off the request
Listing(param) == {ToInt(param[k]) : k \in 1..Len(param)}

\* C4: with a non-empty tags parameter the recipe list holds exactly the
\* caller's recipes that reference at least one listed tag (and, when the
\* ingredients parameter is given too, at least one listed ingredient), each
\* once.
C4_TagFilterExactNoDuplicates ==
    (response.op = "recipe_list" /\ response.status = 200 /\ Truthy(response.args.tags)) =>
        /\ Listed(response) =
              {r.id : r \in {x \in recipes :
                  /\ x.user = response.caller
                  /\ \E t \in Listing(response.args.tags) : <<x.id, t>> \in links["tag"]
                  /\ Truthy(response.args.ingredients) =>
                        \E i \in Listing(response.args.ingredients) :
                            <<x.id, i>> \in links["ingredient"]}}
        /\ Len(response.data) = Cardinality(Listed(response))

\* a recipe that references both listed tags is listed once
C4_Witness ==
    /\ response.op = "recipe_list"
    /\ response.args.tags = <<"1", "2">>
    /\ response.args.ingredients = None
    /\ Len(response.data) = 1
    /\ {<<response.data[1], 1>>, <<response.data[1], 2>>} \subseteq links["tag"]

OwnTags(caller) == {a.id : a \in {x \in attrs["tag"] : x.user = caller}}

\* C5 as stated: with assigned_only=1 the tag list holds only caller-owned tags
\* attached to at least one recipe owned by the caller; otherwise all
\* caller-owned tags.
C5_AssignedToOwnRecipe ==
    (response.op = "tag_list" /\ response.status = 200) =>
        IF response.args.assigned_only = <<"1">>
        THEN \A id \in Listed(response) :
                /\ id \in OwnTags(response.caller)
                /\ \E r \in recipes : r.user = response.caller /\ <<r.id, id>> \in links["tag"]
        ELSE Listed(response) = OwnTags(response.caller)

\* C5, what the queryset computes instead: with assigned_only=1 exactly the
\* caller-owned tags attached to at least one recipe, of any owner; with
\* assigned_only=0 or absent, exactly the caller-owned tags.
C5_AssignedToAnyRecipe ==
    (response.op = "tag_list" /\ response.status = 200) =>
        IF response.args.assigned_only = <<"1">>
        THEN Listed(response) =
                {id \in OwnTags(response.caller) : \E r \in recipes : <<r.id, id>> \in links["tag"]}
        ELSE Listed(response) = OwnTags(response.caller)

\* the caller's tag is attached only to recipes of other users, and is listed
C5_Witness ==
    /\ response.op = "tag_list"
    /\ response.args.assigned_only = <<"1">>
    /\ \E id \in Listed(response) :
          /\ \E l \in links["tag"] : l[2] = id
          /\ \A r \in recipes : <<r.id, id>> \in links["tag"] => r.user # response.caller

ExplicitFalse(extra_fields) ==
    \E k \in DOMAIN extra_fields : extra_fields[k] = FALSE

Malformed(param) == Truthy(param) /\ \E k \in 1..Len(param) : ~IsInt(param[k])

\* C8: a recipe list request whose tags or ingredients parameter has an element
\* that is not an integer is answered as a validation error (status 400 with
\* field messages) and returns no recipes.
C8_MalformedIdIsClientError ==
    (response.op = "recipe_list"
        /\ (Malformed(response.args.tags) \/ Malformed(response.args.ingredients))) =>
        (response.status = 400 /\ response.errors # {} /\ response.data = <<>>)

\* C9: upload-image on a recipe the caller owns answers 200 and stores the image
\* on that recipe, changing nothing else, when the payload validates; it
\* answers 400 with an error keyed by the field and changes nothing when it
\* does not.
C9_UploadImage ==
    [][(response = Idle /\ response'.op = "upload_image"
        /\ \E r \in recipes : r.id = response'.pk /\ r.user = response'.caller) =>
          IF response'.args.valid
          THEN /\ response'.status = 200
               /\ \A r \in recipes' : r.id = response'.pk => r.image # None
               /\ {r \in recipes' : r.id # response'.pk} = {r \in recipes : r.id # response'.pk}
               /\ Ids(recipes') = Ids(recipes)
               /\ UNCHANGED <<users, attrs, links>>
          ELSE /\ response'.status = 400
               /\ response'.errors = {"image"}
               /\ UNCHANGED <<users, recipes, attrs, links>>]_vars

\* an image stored on one recipe while another recipe has none
C9_Witness ==
    /\ response.op = "upload_image"
    /\ response.status = 200
    /\ \E r \in recipes : r.id = response.pk /\ r.image # None
    /\ \E r \in recipes : r.id # response.pk /\ r.image = None

\* C10: the owner of every stored recipe, tag and ingredient is a stored user.
C10_OwnersExist ==
    \A r \in recipes \cup attrs["tag"] \cup attrs["ingredient"] : r.user \in Ids(users)

\* a user deleted together with records it owned
C10_Witness ==
    /\ response.op = "delete_user"
    /\ response.count > 1
====
